---- MODULE Spec2Model ----
(***************************************************************************)
(* A model of the Hamiltonian Generative Network repository:               *)
(*   - the rollout engine, HGN.forward and HGN.get_random_sample           *)
(*     (src/hamiltonian_generative_network.py),                            *)
(*   - model persistence, HGN.save and HGN.load (same file),               *)
(*   - the GECO training controller, HgnTrainer.fit and                    *)
(*     HgnTrainer.training_step (src/train.py).                            *)
(*                                                                         *)
(* The neural networks, the integrator and the HgnResult record live in    *)
(* the package `utilities`/`networks`, outside the modelled sources; they  *)
(* are modelled at their interface, as the specification describes them.   *)
(***************************************************************************)
EXTENDS Integers, Sequences, FiniteSets, TLC

VARIABLES
    \* ---- rollout engine (HGN.forward / HGN.get_random_sample) ----
    seq_len,        \* HGN.seq_len, the canonical rollout length
    pc,             \* position of the running rollout call
    mode,           \* which operation runs or has returned: "forward" / "sample"
    n_steps,        \* the local n_steps of the running call (the requested step count)
    left,           \* iterations of `for _ in range(n_steps - 1)` still to run
    qp,             \* the locals (q, p): the current phase-space state
    prediction,     \* the HgnResult being built / returned
    calls,          \* the calls made to the ports and to the record, in order
    \* ---- model parameters and persistence (HGN.save / HGN.load) ----
    hgn,            \* the four modules held by the HGN object
    disk,           \* directory -> file name -> stored module (or NoFile)
    io,             \* outcome of the last persistence call
    optimizer,      \* HgnTrainer.optimizer: the attributes of the HGN whose
                    \* module is still the object whose parameters Adam holds
    \* ---- training controller (HgnTrainer) ----
    params,         \* HgnTrainer.params, the experiment configuration
    tpc,            \* position of HgnTrainer.fit
    ctl,            \* controller attributes: C_ma and langrange_multiplier
    ep,             \* epochs completed by the running fit
    batch_idx,      \* batches of the current epoch already processed
    losses,         \* result of the last training_step
    hist            \* bookkeeping of the run: batches seen, optimizer steps, saves

rolloutVars == <<seq_len, pc, mode, n_steps, left, qp, prediction, calls>>
persistVars == <<hgn, disk, io, optimizer>>
trainVars   == <<params, tpc, ctl, ep, batch_idx, losses, hist>>
vars == <<seq_len, pc, mode, n_steps, left, qp, prediction, calls,
          hgn, disk, io, optimizer, params, tpc, ctl, ep, batch_idx, losses, hist>>

(***************************************************************************)
(* Bounds of the model.                                                    *)
(***************************************************************************)
MaxSteps == 3       \* largest step count / seq_len explored
MaxRollout == 2     \* number of distinct input rollout batches
MaxNoise == 1       \* the sampling noise of the latent takes values 0..MaxNoise

\* Python's None; every optional value is a tuple, so None is the empty one.
None == <<>>

(***************************************************************************)
(* The function approximators and the integrator, at their interface.      *)
(* Latents and phase-space coordinates are small naturals modulo StateMod. *)
(***************************************************************************)
StateMod == MaxRollout + MaxNoise + 2

\* encoder(rollout_batch, sample): the latent sample, its mean and log-variance.
\* With sample = FALSE the returned latent is the mean itself.
Encoder(x, sample, eps) ==
    [z        |-> <<"z", IF sample THEN (x + eps) % StateMod ELSE x % StateMod>>,
     z_mean   |-> <<"mean", x>>,
     z_logvar |-> <<"logvar", x>>]

\* transformer(z): the initial phase-space state (q, p).
Transformer(z) == <<z[2] % StateMod, (z[2] + 1) % StateMod>>

\* decoder(q): the frame rendered from the position q.
Decoder(q) == <<"frame", q>>

\* hnn(q, p): the scalar energy of a state, evaluated directly.
Hnn(s) == <<"hnn", s[1], s[2]>>

\* integrator.step(q, p, hnn): the next state.
IntegratorStep(s) == <<(s[1] + s[2]) % StateMod, (s[2] + 1) % StateMod>>

\* integrator.energy after the step that started from state s was taken.
IntegratorEnergy(s) == <<"integrator", s[1], s[2]>>

(***************************************************************************)
(* HgnResult: the trajectory record.                                       *)
(***************************************************************************)
HgnResult(n) ==
    [steps |-> n, input |-> None, z_sample |-> None, z_mean |-> None,
     z_logvar |-> None, states |-> <<>>, reconstructions |-> <<>>,
     energies |-> <<>>]

set_input(r, x) == [r EXCEPT !.input = <<"rollout", x>>]

set_z(r, z, mean, logvar) ==
    [r EXCEPT !.z_sample = z, !.z_mean = mean, !.z_logvar = logvar]

append_state(r, s) == [r EXCEPT !.states = Append(@, s)]

append_reconstruction(r, x) == [r EXCEPT !.reconstructions = Append(@, x)]

append_energy(r, e) == [r EXCEPT !.energies = Append(@, e)]

(***************************************************************************)
(* HGN.forward (reconstruction mode).                                      *)
(***************************************************************************)
\* n_steps = self.seq_len if n_steps is None else n_steps
ResolveNSteps(arg) == IF arg = None THEN seq_len ELSE arg[1]

\* Mutant of LoopCount: the loop runs range(n_steps) times.
LoopCountAll(n) == IF n > 0 THEN n ELSE 0

\* range(n_steps - 1): the number of loop iterations
LoopCount(n) == IF n - 1 > 0 THEN n - 1 ELSE 0

\* The arguments a caller may pass for n_steps: None or a step count >= 1.
NStepsArgs == {None} \cup {<<k>> : k \in 1..MaxSteps}

\* Lines 79-101: record construction, encoding, initial state and its decoding.
ForwardEnter ==
    /\ pc \in {"idle", "returned"}
    /\ \E x \in 1..MaxRollout, arg \in NStepsArgs, variational \in BOOLEAN,
          eps \in 0..MaxNoise :
          LET n   == ResolveNSteps(arg)
              enc == Encoder(x, variational, eps)
              s0  == Transformer(enc.z)
              r1  == set_input(HgnResult(n), x)
              r2  == set_z(r1, enc.z, enc.z_mean, enc.z_logvar)
              r3  == append_state(r2, s0)
              r4  == append_reconstruction(r3, Decoder(s0[1]))
          IN  /\ n_steps' = n
              /\ left' = LoopCount(n)
              /\ qp' = s0
              /\ prediction' = r4
              /\ calls' = <<"set_input", "encoder", "set_z", "transformer",
                            "append_state", "decoder", "append_reconstruction">>
    /\ mode' = "forward"
    /\ pc' = "loop"
    /\ UNCHANGED <<seq_len, persistVars, trainVars>>

\* Mutant of ForwardLoop: the iteration decodes before it steps, so the frame
\* recorded with a state is the one of the state before it.
ForwardLoopDecodeBeforeStep ==
    /\ pc = "loop" /\ mode = "forward" /\ left > 0
    /\ LET s1 == IntegratorStep(qp)
           r1 == append_reconstruction(prediction, Decoder(qp[1]))
           r2 == append_state(r1, s1)
           r3 == append_energy(r2, IntegratorEnergy(qp))
       IN  /\ qp' = s1
           /\ prediction' = r3
           /\ calls' = calls \o <<"decoder", "append_reconstruction",
                                  "integrator.step", "append_state", "append_energy">>
    /\ left' = left - 1
    /\ UNCHANGED <<seq_len, pc, mode, n_steps, persistVars, trainVars>>

\* Mutant of ForwardLoop: the iteration forgets to record the energy.
ForwardLoopNoEnergy ==
    /\ pc = "loop" /\ mode = "forward" /\ left > 0
    /\ LET s1 == IntegratorStep(qp)
           r1 == append_state(prediction, s1)
           r2 == append_reconstruction(r1, Decoder(s1[1]))
       IN  /\ qp' = s1
           /\ prediction' = r2
           /\ calls' = calls \o <<"integrator.step", "append_state",
                                  "decoder", "append_reconstruction">>
    /\ left' = left - 1
    /\ UNCHANGED <<seq_len, pc, mode, n_steps, persistVars, trainVars>>

\* Lines 104-112: one iteration of the prediction loop.
ForwardLoop ==
    /\ pc = "loop" /\ mode = "forward" /\ left > 0
    /\ LET s1 == IntegratorStep(qp)
           r1 == append_state(prediction, s1)
           r2 == append_energy(r1, IntegratorEnergy(qp))
           r3 == append_reconstruction(r2, Decoder(s1[1]))
       IN  /\ qp' = s1
           /\ prediction' = r3
           /\ calls' = calls \o <<"integrator.step", "append_state", "append_energy",
                                  "decoder", "append_reconstruction">>
    /\ left' = left - 1
    /\ UNCHANGED <<seq_len, pc, mode, n_steps, persistVars, trainVars>>

\* Mutant of ForwardReturn: the last energy is read from the integrator.
ForwardReturnIntegratorEnergy ==
    /\ pc = "loop" /\ mode = "forward" /\ left = 0
    /\ prediction' = append_energy(prediction, IntegratorEnergy(qp))
    /\ calls' = calls \o <<"append_energy">>
    /\ pc' = "returned"
    /\ UNCHANGED <<seq_len, mode, n_steps, left, qp, persistVars, trainVars>>

\* Lines 114-117: the energy of the last state, evaluated directly, and return.
ForwardReturn ==
    /\ pc = "loop" /\ mode = "forward" /\ left = 0
    /\ prediction' = append_energy(prediction, Hnn(qp))
    /\ calls' = calls \o <<"hnn", "append_energy">>
    /\ pc' = "returned"
    /\ UNCHANGED <<seq_len, mode, n_steps, left, qp, persistVars, trainVars>>

(***************************************************************************)
(* HGN.get_random_sample (generative mode).                                *)
(***************************************************************************)
\* Lines 220-240: latent drawn from the prior, initial state and its decoding.
GetRandomSampleEnter ==
    /\ pc \in {"idle", "returned"}
    /\ \E n \in 1..MaxSteps, lat \in 0..(StateMod - 1) :
          LET z   == <<"z", lat>>
              s0  == Transformer(z)
              r1  == set_z(HgnResult(n), z, None, None)
              r2  == append_state(r1, s0)
              r3  == append_reconstruction(r2, Decoder(s0[1]))
          IN  /\ n_steps' = n
              /\ left' = LoopCount(n)
              /\ qp' = s0
              /\ prediction' = r3
              /\ calls' = <<"randn", "set_z", "transformer", "append_state",
                            "decoder", "append_reconstruction">>
    /\ mode' = "sample"
    /\ pc' = "loop"
    /\ UNCHANGED <<seq_len, persistVars, trainVars>>

\* Mutant of GetRandomSampleLoop: the iteration records the energy, as forward does.
GetRandomSampleLoopWithEnergy ==
    /\ pc = "loop" /\ mode = "sample" /\ left > 0
    /\ LET s1 == IntegratorStep(qp)
           r1 == append_state(prediction, s1)
           r2 == append_energy(r1, IntegratorEnergy(qp))
           r3 == append_reconstruction(r2, Decoder(s1[1]))
       IN  /\ qp' = s1
           /\ prediction' = r3
           /\ calls' = calls \o <<"integrator.step", "append_state", "append_energy",
                                  "decoder", "append_reconstruction">>
    /\ left' = left - 1
    /\ UNCHANGED <<seq_len, pc, mode, n_steps, persistVars, trainVars>>

\* Lines 243-250: one iteration of the prediction loop.
GetRandomSampleLoop ==
    /\ pc = "loop" /\ mode = "sample" /\ left > 0
    /\ LET s1 == IntegratorStep(qp)
           r1 == append_state(prediction, s1)
           r2 == append_reconstruction(r1, Decoder(s1[1]))
       IN  /\ qp' = s1
           /\ prediction' = r2
           /\ calls' = calls \o <<"integrator.step", "append_state",
                                  "decoder", "append_reconstruction">>
    /\ left' = left - 1
    /\ UNCHANGED <<seq_len, pc, mode, n_steps, persistVars, trainVars>>

\* Line 251: return prediction.
GetRandomSampleReturn ==
    /\ pc = "loop" /\ mode = "sample" /\ left = 0
    /\ pc' = "returned"
    /\ UNCHANGED <<seq_len, mode, n_steps, left, qp, prediction, calls,
                   persistVars, trainVars>>

(***************************************************************************)
(* Model persistence: HGN.save and HGN.load.                               *)
(* A module object is <<role, version>>: the role it was built for and the *)
(* version of its parameters (every optimizer step makes a new version).   *)
(***************************************************************************)
MaxVersion == 3     \* parameter versions explored: 0 (stale files) .. MaxVersion

ENCODER_FILENAME == "encoder.pt"
TRANSFORMER_FILENAME == "transformer.pt"
HAMILTONIAN_FILENAME == "hamiltonian.pt"
DECODER_FILENAME == "decoder.pt"

Filenames == {ENCODER_FILENAME, TRANSFORMER_FILENAME, HAMILTONIAN_FILENAME,
              DECODER_FILENAME}
\* The directories a caller may name.
Dirs == {"saved_models/a", "saved_models/b"}
NoFile == None

\* The modules a freshly constructed HGN holds (HGN.__init__, lines 59-62).
NewHGN ==
    [encoder |-> <<"encoder", 1>>, transformer |-> <<"transformer", 1>>,
     hnn |-> <<"hnn", 1>>, decoder |-> <<"decoder", 1>>]

\* torch.save(obj, path): the directory with the file (over)written.
TorchSave(dir, file, obj) == [dir EXCEPT ![file] = obj]

\* Mutant of SaveTo: the Hamiltonian is written under the decoder's file name too.
SaveToWrongFile(h, dir) ==
    LET d1 == TorchSave(dir, ENCODER_FILENAME, h.encoder)
        d2 == TorchSave(d1, TRANSFORMER_FILENAME, h.transformer)
        d3 == TorchSave(d2, HAMILTONIAN_FILENAME, h.hnn)
        d4 == TorchSave(d3, DECODER_FILENAME, h.hnn)
    IN  d4

\* HGN.save, lines 192-200: the directory after the four writes.
SaveTo(h, dir) ==
    LET d1 == TorchSave(dir, ENCODER_FILENAME, h.encoder)
        d2 == TorchSave(d1, TRANSFORMER_FILENAME, h.transformer)
        d3 == TorchSave(d2, HAMILTONIAN_FILENAME, h.hnn)
        d4 == TorchSave(d3, DECODER_FILENAME, h.decoder)
    IN  d4

\* The order in which HGN.load assigns the attributes, with the file of each.
LoadOrder ==
    << <<"encoder", ENCODER_FILENAME>>, <<"transformer", TRANSFORMER_FILENAME>>,
       <<"hnn", HAMILTONIAN_FILENAME>>, <<"decoder", DECODER_FILENAME>> >>

\* HGN.load, lines 173-184: the assignments run one after the other; torch.load
\* of a missing file raises, and the assignments made before it stay.
\* Each assignment binds the attribute to a new module object, the one
\* torch.load built: `assigned` collects the attributes bound so.
RECURSIVE LoadSeq(_, _, _, _)
LoadSeq(h, dir, i, assigned) ==
    IF i > Len(LoadOrder)
    THEN [hgn |-> h, raised |-> FALSE, assigned |-> assigned]
    ELSE LET attr == LoadOrder[i][1]
             file == LoadOrder[i][2]
         IN  IF dir[file] = NoFile
             THEN [hgn |-> h, raised |-> TRUE, assigned |-> assigned]
             ELSE LoadSeq([h EXCEPT ![attr] = dir[file]], dir, i + 1,
                          assigned \cup {attr})

LoadFrom(h, dir) == LoadSeq(h, dir, 1, {})

\* HGN.save(directory)
Save ==
    /\ \E d \in Dirs :
          /\ disk' = [disk EXCEPT ![d] = SaveTo(hgn, disk[d])]
          /\ io' = [op |-> "save", dir |-> d, raised |-> FALSE, before |-> hgn,
                    savedAt |-> [io.savedAt EXCEPT ![d] = <<hgn>>]]
    /\ UNCHANGED <<hgn, optimizer, rolloutVars, trainVars>>

\* HGN.load(directory).  The optimizer keeps the parameters of the module
\* objects it was built with; an attribute that load has rebound is no longer
\* one of them.
Load ==
    /\ \E d \in Dirs :
          LET res == LoadFrom(hgn, disk[d])
          IN  /\ hgn' = res.hgn
              /\ optimizer' = optimizer \ res.assigned
              /\ io' = [io EXCEPT !.op = "load", !.dir = d,
                                  !.raised = res.raised, !.before = hgn]
    /\ UNCHANGED <<disk, rolloutVars, trainVars>>

\* The attributes of the HGN that hold a module.
Attributes == {"encoder", "transformer", "hnn", "decoder"}

\* HgnTrainer.__init__, lines 77-95: Adam is built over the parameters of the
\* four modules the HGN holds at that moment.
NewOptimizer == Attributes

\* optimizer.step() (train.py line 176): Adam updates the parameters it was
\* built with.  A module the HGN still holds from then gets a new version; a
\* module bound by a later HGN.load is not among them and stays as loaded.
StepModule(m) == <<m[1], m[2] + 1>>

OptimizerStepOn(h, held) ==
    [encoder |-> IF "encoder" \in held THEN StepModule(h.encoder) ELSE h.encoder,
     transformer |-> IF "transformer" \in held THEN StepModule(h.transformer)
                     ELSE h.transformer,
     hnn |-> IF "hnn" \in held THEN StepModule(h.hnn) ELSE h.hnn,
     decoder |-> IF "decoder" \in held THEN StepModule(h.decoder) ELSE h.decoder]

HighestVersion(h) ==
    LET vs == {h.encoder[2], h.transformer[2], h.hnn[2], h.decoder[2]}
    IN  CHOOSE v \in vs : \A w \in vs : w <= v

\* The parameters change between persistence calls (training goes on).
ParametersChange ==
    /\ HighestVersion(hgn) < MaxVersion
    /\ hgn' = OptimizerStepOn(hgn, optimizer)
    /\ io' = [io EXCEPT !.op = "step", !.raised = FALSE, !.before = hgn]
    /\ UNCHANGED <<disk, optimizer, rolloutVars, trainVars>>

(***************************************************************************)
(* The GECO training controller: HgnTrainer.training_step and .fit.        *)
(*                                                                         *)
(* Numbers.  The constraint C, its moving average C_ma and alpha are exact *)
(* rationals <<numerator, denominator>> in lowest terms (denominator >= 1), *)
(* C and C_ma in units of ln(10); sums and products are exact.  The        *)
(* Lagrange multiplier is a positive number 10^L and is held as its        *)
(* decimal exponent L, a rational too: the run-start value 1 is L = 0, the *)
(* product m * exp(kappa * C_ma) is L + kappa * C_ma, and the clamp bounds *)
(* 1e-10 and 1e10 are L = -10 and L = 10.                                  *)
(***************************************************************************)
MaxEpochs == 2      \* params["optimization"]["epochs"] ranges over 0..MaxEpochs
MaxBatches == 2     \* len(train_data_loader) ranges over 0..MaxBatches
MaxC == 3           \* the constraint value of a batch is -MaxC, 0 or MaxC
MaxRuns == 2        \* calls of fit() on one trainer

MultMinExp == -10   \* torch.clamp(..., 1e-10, 1e10): the lower bound
MultMaxExp == 10    \* torch.clamp(..., 1e-10, 1e10): the upper bound

\* Exact rational arithmetic, for the tensor arithmetic of training_step.
Abs(x) == IF x < 0 THEN -x ELSE x

RECURSIVE Gcd(_, _)
Gcd(a, b) == IF b = 0 THEN a ELSE Gcd(b, a % b)

Lcm(a, b) == (a \div Gcd(a, b)) * b

\* The rational n/d (d >= 1) in lowest terms.
Rat(n, d) == LET g == Gcd(Abs(n), d) IN <<n \div g, d \div g>>

RInt(k) == <<k, 1>>

RAdd(x, y) ==
    LET l == Lcm(x[2], y[2])
    IN  Rat(x[1] * (l \div x[2]) + y[1] * (l \div y[2]), l)

RNeg(x) == <<-x[1], x[2]>>

RSub(x, y) == RAdd(x, RNeg(y))

RMul(x, y) == Rat(x[1] * y[1], x[2] * y[2])

RLess(x, y) == RSub(x, y)[1] < 0

RLeq(x, y) == RSub(x, y)[1] <= 0

\* The values geco_constraint (line 114) and kld_loss (line 119) return.
CValues == {-MaxC, 0, MaxC}
KldValues == {1}
\* params["geco"]["alpha"], a rational <<numerator, denominator>> in (0, 1)
Alphas == {<<1, 2>>, <<3, 4>>}
\* params["geco"]["langrange_multiplier_param"]
Kappas == {-1, 0, 1, 2}

\* params["model_save_dir"] / params["experiment_id"]
model_save_file == "saved_models/a"

\* Mutant of Clamp: only the lower bound is applied.
ClampLowerOnly(x, lo, hi) == IF RLess(x, lo) THEN lo ELSE x

\* torch.clamp(x, lo, hi)
Clamp(x, lo, hi) ==
    IF RLess(x, lo) THEN lo ELSE IF RLess(hi, x) THEN hi ELSE x

\* alpha * C_ma + (1 - alpha) * C  (train.py lines 126-127)
Blend(alpha, ma, C) ==
    RAdd(RMul(alpha, ma), RMul(RSub(RInt(1), alpha), C))

\* Mutant of MovingAverage: an unset average is blended as if it were 0.
MovingAverageAlwaysBlend(C_ma, alpha, C) ==
    IF C_ma = None THEN <<Blend(alpha, RInt(0), C)>>
    ELSE <<Blend(alpha, C_ma[1], C)>>

\* Lines 121-127: the moving average of the constraint.
MovingAverage(C_ma, alpha, C) ==
    IF C_ma = None THEN <<C>> ELSE <<Blend(alpha, C_ma[1], C)>>

\* Mutant of UpdateMultiplier: the sign of the exponent is inverted.
UpdateMultiplierInverted(mult, kappa, C_ma) ==
    <<Clamp(RSub(mult[1], RMul(RInt(kappa), C_ma[1])),
            RInt(MultMinExp), RInt(MultMaxExp))>>

\* Lines 143-145: langrange_multiplier * exp(kappa * C_ma), clamped.
UpdateMultiplier(mult, kappa, C_ma) ==
    <<Clamp(RAdd(mult[1], RMul(RInt(kappa), C_ma[1])),
            RInt(MultMinExp), RInt(MultMaxExp))>>

\* The attributes of a torch.Tensor that training_step may look up; `input`
\* is an attribute of HgnResult, not of the tensor reconstructed_rollout.
TensorAttributes == {"shape", "dtype", "device", "detach", "item"}

\* The losses dictionary; kind "none" when no training_step has returned one.
NoLosses ==
    [kind |-> "none", kld |-> 0, mult |-> None, C |-> RInt(0),
     C_cur |-> RInt(0), C_ma |-> None]

\* Mutant of TrainingStep: the multiplier is updated before the loss is
\* computed, so the loss of a batch uses the multiplier of after its update.
TrainingStepUpdateFirst(c, p, C, kld) ==
    IF p.variational
    THEN LET ma     == MovingAverage(c.C_ma, p.alpha, C)
             Cp     == RAdd(C, RSub(ma[1], C))
             mult2  == UpdateMultiplier(c.langrange_multiplier, p.kappa, ma)
             train  == [kind |-> "geco", kld |-> kld, mult |-> mult2, C |-> Cp,
                        C_cur |-> C, C_ma |-> ma]
         IN  [ctl |-> [c EXCEPT !.C_ma = ma, !.langrange_multiplier = mult2],
              losses |-> train, raised |-> FALSE]
    ELSE [ctl |-> c, losses |-> NoLosses, raised |-> TRUE]

\* HgnTrainer.training_step, lines 109-152.  `c` is the controller state,
\* C and kld the values geco_constraint and kld_loss return for the batch.
\* Result: the controller state, the losses dictionary (NoLosses when the
\* step raised) and whether it raised.
TrainingStep(c, p, C, kld) ==
    IF p.variational
    THEN LET ma     == MovingAverage(c.C_ma, p.alpha, C)            \* 122-127
             Cp     == RAdd(C, RSub(ma[1], C))                      \* 129
             train  == [kind |-> "geco", kld |-> kld,
                        mult |-> c.langrange_multiplier, C |-> Cp,
                        C_cur |-> C, C_ma |-> ma]                   \* 132-140
             mult2  == UpdateMultiplier(c.langrange_multiplier, p.kappa, ma)
         IN  [ctl |-> [c EXCEPT !.C_ma = ma, !.langrange_multiplier = mult2],
              losses |-> train, raised |-> FALSE]
    ELSE \* line 111 bound `prediction` to hgn_output.reconstructed_rollout, a
         \* tensor; line 148 looks up prediction.input on it
         IF "input" \in TensorAttributes
         THEN [ctl |-> c,
               losses |-> [kind |-> "rec", kld |-> 0, mult |-> None,
                           C |-> RInt(0), C_cur |-> RInt(0), C_ma |-> None],
               raised |-> FALSE]
         ELSE [ctl |-> c, losses |-> NoLosses, raised |-> TRUE]

NoBatches == [b \in {} |-> 0]

\* fit(), lines 159-162: the initial values of the GECO algorithm.
FitStart ==
    /\ tpc \in {"init", "done", "raised"}
    /\ hist.runs < MaxRuns
    /\ ctl' = IF params.variational
              THEN [set |-> TRUE, C_ma |-> None,
                    langrange_multiplier |-> <<RInt(0)>>]
              ELSE ctl
    /\ tpc' = "train"
    /\ ep' = 0
    /\ batch_idx' = 0
    /\ losses' = NoLosses
    /\ hist' = [runs |-> hist.runs + 1, attempted |-> 0, opt_steps |-> 0,
                processed |-> [b \in 1..params.n_batches |-> 0], saves |-> 0]
    /\ UNCHANGED <<params, hgn, disk, io, optimizer, rolloutVars>>

\* fit(), lines 168-188: one batch of the current epoch.
FitBatch ==
    /\ tpc = "train" /\ ep < params.epochs /\ batch_idx < params.n_batches
    /\ \E C \in CValues, kld \in KldValues :
          LET res == TrainingStep(ctl, params, RInt(C), kld)         \* 174
          IN  /\ ctl' = res.ctl
              /\ losses' = res.losses
              /\ IF res.raised
                 THEN /\ tpc' = "raised"
                      /\ hist' = [hist EXCEPT !.attempted = @ + 1]
                      /\ UNCHANGED <<hgn, batch_idx>>
                 ELSE /\ hgn' = OptimizerStepOn(hgn, optimizer)      \* 175-176
                      /\ batch_idx' = batch_idx + 1
                      /\ hist' = [hist EXCEPT !.attempted = @ + 1,
                                              !.opt_steps = @ + 1,
                                              !.processed[batch_idx + 1] = @ + 1]
                      /\ UNCHANGED tpc
    /\ UNCHANGED <<params, ep, disk, io, optimizer, rolloutVars>>

\* fit(), line 190: the model is saved at the end of each epoch.
FitSave ==
    /\ tpc = "train" /\ ep < params.epochs /\ batch_idx = params.n_batches
    /\ disk' = [disk EXCEPT ![model_save_file] = SaveTo(hgn, disk[model_save_file])]
    /\ io' = [op |-> "save", dir |-> model_save_file, raised |-> FALSE,
              before |-> hgn,
              savedAt |-> [io.savedAt EXCEPT ![model_save_file] = <<hgn>>]]
    /\ ep' = ep + 1
    /\ batch_idx' = 0
    /\ hist' = [hist EXCEPT !.saves = @ + 1]
    /\ UNCHANGED <<params, tpc, ctl, losses, hgn, optimizer, rolloutVars>>

\* fit(), lines 192-193: test() and return.
FitReturn ==
    /\ tpc = "train" /\ ep = params.epochs
    /\ tpc' = "done"
    /\ UNCHANGED <<params, ctl, ep, batch_idx, losses, hist, hgn, disk, io,
                   optimizer, rolloutVars>>

(***************************************************************************)
(* Initial states and specifications.                                      *)
(*                                                                         *)
(* The rollout engine, persistence and the trainer are checked one at a    *)
(* time (SpecRollout, SpecPersist, SpecTrain): a rollout call touches      *)
(* neither the parameters nor the disk, and fit() runs to its end without  *)
(* other calls in between (single-threaded, synchronous control flow).     *)
(* Spec is their union.                                                    *)
(***************************************************************************)
EmptyDir == [f \in Filenames |-> NoFile]

\* A directory left by an earlier process: any of the four files may exist.
StaleModule(f) ==
    IF f = ENCODER_FILENAME THEN <<"encoder", 0>>
    ELSE IF f = TRANSFORMER_FILENAME THEN <<"transformer", 0>>
    ELSE IF f = HAMILTONIAN_FILENAME THEN <<"hnn", 0>>
    ELSE <<"decoder", 0>>

StaleDir(present) ==
    [f \in Filenames |-> IF f \in present THEN StaleModule(f) ELSE NoFile]

RolloutIdle ==
    /\ pc = "idle" /\ mode = "none" /\ n_steps = 0 /\ left = 0
    /\ qp = <<0, 0>> /\ prediction = HgnResult(0) /\ calls = <<>>

PersistIdle ==
    /\ hgn = NewHGN
    /\ optimizer = NewOptimizer
    /\ io = [op |-> "none", dir |-> "", raised |-> FALSE, before |-> NewHGN,
             savedAt |-> [d \in Dirs |-> None]]

TrainerIdle ==
    /\ tpc = "init"
    /\ ctl = [set |-> FALSE, C_ma |-> None, langrange_multiplier |-> None]
    /\ ep = 0 /\ batch_idx = 0 /\ losses = NoLosses
    /\ hist = [runs |-> 0, attempted |-> 0, opt_steps |-> 0,
               processed |-> NoBatches, saves |-> 0]

DefaultParams ==
    [variational |-> TRUE, epochs |-> 1, n_batches |-> 1,
     alpha |-> <<1, 2>>, kappa |-> 1]

\* The rollout engine: an HGN of any canonical length serving rollout calls.
InitRollout ==
    /\ seq_len \in 1..MaxSteps
    /\ RolloutIdle /\ PersistIdle /\ TrainerIdle
    /\ disk = [d \in Dirs |-> EmptyDir]
    /\ params = DefaultParams

NextRollout ==
    \/ ForwardEnter \/ ForwardLoop \/ ForwardReturn
    \/ GetRandomSampleEnter \/ GetRandomSampleLoop \/ GetRandomSampleReturn

SpecRollout == InitRollout /\ [][NextRollout]_vars

\* Persistence: directories in any state, save and load calls in any order.
InitPersist ==
    /\ seq_len = 1
    /\ RolloutIdle /\ PersistIdle /\ TrainerIdle
    /\ disk \in [Dirs -> {StaleDir(S) : S \in SUBSET Filenames}]
    /\ params = DefaultParams

NextPersist == Save \/ Load \/ ParametersChange

SpecPersist == InitPersist /\ [][NextPersist]_vars

\* Training: a trainer of any configuration running fit().
InitTrain ==
    /\ seq_len = 1
    /\ RolloutIdle /\ PersistIdle /\ TrainerIdle
    /\ disk \in {[d \in Dirs |-> EmptyDir],
                 [d \in Dirs |-> IF d = model_save_file THEN StaleDir(Filenames)
                                 ELSE EmptyDir]}
    /\ params \in [variational : BOOLEAN, epochs : 0..MaxEpochs,
                   n_batches : 0..MaxBatches, alpha : Alphas, kappa : Kappas]

NextTrain == FitStart \/ FitBatch \/ FitSave \/ FitReturn

SpecTrain == InitTrain /\ [][NextTrain]_vars

Init == InitRollout \/ InitPersist \/ InitTrain
Next == NextRollout \/ NextPersist \/ NextTrain
Spec == Init /\ [][Next]_vars

(***************************************************************************)
(* Properties.                                                             *)
(***************************************************************************)
Count(seq, x) == Cardinality({i \in DOMAIN seq : seq[i] = x})

Returned(m) == pc = "returned" /\ mode = m

\* C1 (as stated): every returned record, of either mode, has as many states,
\* reconstructions and energies as the requested step count.
C1_AllLengthsEqualStepCount ==
    pc = "returned" =>
        /\ Len(prediction.states) = n_steps
        /\ Len(prediction.reconstructions) = n_steps
        /\ Len(prediction.energies) = n_steps

\* C1 (amended): for a step count >= 1, every returned record has as many
\* states and reconstructions as the requested step count; it has as many
\* energies in reconstruction mode, and no energy in generative mode.
C1_LengthsByMode ==
    (pc = "returned" /\ n_steps >= 1) =>
        /\ Len(prediction.states) = n_steps
        /\ Len(prediction.reconstructions) = n_steps
        /\ Len(prediction.energies) = IF mode = "forward" THEN n_steps ELSE 0

C1_Witness ==
    /\ Returned("sample") /\ n_steps >= 2
    /\ Len(prediction.states) = n_steps /\ prediction.energies = <<>>

\* C5: forward with a step count of 1 returns without any call to the
\* integrator, with one state, one reconstruction and one energy, the energy
\* being the Hamiltonian evaluated directly on the initial state.
C5_SingleStepForward ==
    (Returned("forward") /\ n_steps = 1) =>
        /\ Count(calls, "integrator.step") = 0
        /\ Len(prediction.states) = 1
        /\ Len(prediction.reconstructions) = 1
        /\ prediction.energies = <<Hnn(prediction.states[1])>>

C5_Witness ==
    /\ Returned("forward") /\ n_steps = 1
    /\ Len(prediction.energies) = 1 /\ Count(calls, "hnn") = 1

\* C6: when forward returns (n_steps >= 1), the integrator has stepped n_steps - 1 times,
\* the Hamiltonian was evaluated directly once, after the last integrator
\* step (never inside the loop), and there are as many energies as states.
C6_IntegratorStepsAndFinalEnergy ==
    /\ (mode = "forward" /\ pc = "loop") => Count(calls, "hnn") = 0
    /\ (Returned("forward") /\ n_steps >= 1) =>
        /\ Count(calls, "integrator.step") = n_steps - 1
        /\ Count(calls, "hnn") = 1
        /\ \A i \in DOMAIN calls : \A j \in DOMAIN calls :
              (calls[i] = "integrator.step" /\ calls[j] = "hnn") => i < j
        /\ Len(prediction.energies) = Len(prediction.states)

C6_Witness ==
    /\ Returned("forward") /\ n_steps = 3
    /\ Count(calls, "integrator.step") = 2
    /\ Len(prediction.energies) = 3

\* C7: get_random_sample never calls the encoder and never appends an
\* energy; the record it returns has no energy, no input, no latent mean and
\* log-variance, and n_steps states and reconstructions.
C7_GenerativeModeRecord ==
    /\ (mode = "sample") =>
        /\ Count(calls, "encoder") = 0
        /\ Count(calls, "append_energy") = 0
    /\ Returned("sample") =>
        /\ prediction.energies = <<>>
        /\ prediction.input = None
        /\ prediction.z_mean = None /\ prediction.z_logvar = None
        /\ prediction.z_sample # None
        /\ Len(prediction.states) = n_steps
        /\ Len(prediction.reconstructions) = n_steps

C7_Witness ==
    /\ Returned("sample") /\ n_steps = 3
    /\ Count(calls, "integrator.step") = 2
    /\ Len(prediction.reconstructions) = 3

\* C4 (as stated): a load that failed has replaced none of the four modules.
C4_LoadAllOrNothing ==
    (io.op = "load" /\ io.raised) => hgn = io.before

\* C9: a load from a directory that was saved to leaves the model holding
\* exactly the four modules it held at the time of the last save there.
C9_SaveLoadRoundTrip ==
    (io.op = "load" /\ io.savedAt[io.dir] # None) =>
        /\ ~io.raised
        /\ hgn = io.savedAt[io.dir][1]

C9_Witness ==
    /\ io.op = "load" /\ io.savedAt[io.dir] # None
    /\ io.before # hgn
    /\ hgn.encoder[2] >= 2

InBounds(m) ==
    /\ m # None
    /\ RLeq(RInt(MultMinExp), m[1]) /\ RLeq(m[1], RInt(MultMaxExp))

\* C2: in variational training the multiplier held by the controller is
\* within [1e-10, 1e10] from the run start on, after every batch, and so is
\* the multiplier that entered the loss of every batch.
C2_MultiplierWithinBounds ==
    /\ ctl.set => InBounds(ctl.langrange_multiplier)
    /\ losses.kind = "geco" => InBounds(losses.mult)
    /\ (params.variational /\ tpc # "init") => ctl.set

C2_Witness ==
    /\ losses.kind = "geco"
    /\ RLess(RInt(MultMaxExp),
             RAdd(losses.mult[1], RMul(RInt(params.kappa), ctl.C_ma[1])))
    /\ ctl.langrange_multiplier = <<RInt(MultMaxExp)>>

\* C8: the first variational batch of a run finds the moving average unset
\* and leaves it equal to the batch's constraint value C; every later batch
\* leaves it at alpha * (previous average) + (1 - alpha) * C.
C8_MovingAverageUpdate ==
    [][ (params.variational /\ hist'.attempted = hist.attempted + 1) =>
            IF hist.attempted = 0
            THEN ctl.C_ma = None /\ ctl'.C_ma = <<losses'.C_cur>>
            ELSE /\ ctl.C_ma # None
                 /\ ctl'.C_ma =
                      <<RAdd(RMul(params.alpha, ctl.C_ma[1]),
                             RMul(RSub(RInt(1), params.alpha), losses'.C_cur))>> ]_vars

C8_Witness ==
    /\ losses.kind = "geco" /\ hist.attempted >= 2
    /\ ctl.C_ma # <<losses.C_cur>>

\* C3 (as stated): in deterministic training the controller state is never
\* touched and every batch yields the reconstruction error as its loss.
C3_DeterministicLossIsRecError ==
    (~params.variational /\ hist.attempted > 0) =>
        /\ ~ctl.set /\ ctl.C_ma = None /\ ctl.langrange_multiplier = None
        /\ losses.kind = "rec"

\* C10 (as stated, for a run over at least one epoch and one batch): fit ends
\* only by returning, having processed every batch once per epoch, and the
\* save directory then holds the parameters of the last optimizer step.
C10_FitPersistsFinalParameters ==
    (tpc \in {"done", "raised"} /\ params.epochs >= 1 /\ params.n_batches >= 1) =>
        /\ tpc = "done"
        /\ \A b \in 1..params.n_batches : hist.processed[b] = params.epochs
        /\ disk[model_save_file] = SaveTo(hgn, EmptyDir)

\* The calls of one iteration of forward's loop, in the order C11 gives.
IterationCalls ==
    <<"integrator.step", "append_state", "append_energy", "decoder",
      "append_reconstruction">>

\* The calls forward makes before its loop.
EnterCalls ==
    <<"set_input", "encoder", "set_z", "transformer", "append_state", "decoder",
      "append_reconstruction">>

\* C11: in forward, every loop iteration calls, in this order, the
\* integrator's step, append_state, append_energy, the decoder and
\* append_reconstruction; so every energy but the last is the integrator's
\* energy of the transition from the state of the same index to the next
\* state, the last energy of the returned record is the Hamiltonian evaluated
\* on the last state, and every reconstruction is decoded from the state of
\* its index.
C11_IterationOrderAndAlignment ==
    (mode = "forward") =>
        LET st   == prediction.states
            done == Len(st) - 1
        IN  /\ Len(calls) >= Len(EnterCalls) + Len(IterationCalls) * done
            /\ SubSeq(calls, 1, Len(EnterCalls)) = EnterCalls
            /\ \A k \in 0..(done - 1) :
                  SubSeq(calls, Len(EnterCalls) + Len(IterationCalls) * k + 1,
                         Len(EnterCalls) + Len(IterationCalls) * (k + 1))
                    = IterationCalls
            /\ \A i \in 1..done :
                  /\ st[i + 1] = IntegratorStep(st[i])
                  /\ prediction.energies[i] = IntegratorEnergy(st[i])
            /\ Len(prediction.reconstructions) = Len(st)
            /\ \A i \in DOMAIN st : prediction.reconstructions[i] = Decoder(st[i][1])
            /\ pc = "returned" =>
                  /\ Len(prediction.energies) = Len(st)
                  /\ prediction.energies[Len(st)] = Hnn(st[Len(st)])
                  /\ calls = SubSeq(calls, 1, Len(calls) - 2) \o <<"hnn", "append_energy">>

C11_Witness ==
    /\ Returned("forward") /\ n_steps = 3
    /\ prediction.energies[2] = IntegratorEnergy(prediction.states[2])
    /\ prediction.states[3] = IntegratorStep(prediction.states[2])
    /\ prediction.energies[3] = Hnn(prediction.states[3])
    /\ prediction.reconstructions[3] = Decoder(prediction.states[3][1])

\* A step of fit that runs training_step on one batch.
BatchStep == hist'.attempted = hist.attempted + 1

\* C12: a variational batch computes its loss KLD + m * C' with the
\* multiplier m of before the batch (1 on the first batch of a run) and with
\* C' = C + (C_ma - C) for the moving average already updated in the batch;
\* it then leaves the multiplier at clamp(m * exp(kappa * C_ma)) for that same
\* updated average.  Between batches the controller state changes only when
\* a run starts.
C12_LossBeforeMultiplierUpdate ==
    [][ /\ (params.variational /\ BatchStep) =>
            /\ losses'.kind = "geco"
            /\ losses'.mult = ctl.langrange_multiplier
            /\ hist.attempted = 0 => losses'.mult = <<RInt(0)>>
            /\ losses'.C_ma = ctl'.C_ma
            /\ losses'.C = RAdd(losses'.C_cur, RSub(ctl'.C_ma[1], losses'.C_cur))
            /\ LET raw == RAdd(ctl.langrange_multiplier[1],
                               RMul(RInt(params.kappa), ctl'.C_ma[1]))
               IN  ctl'.langrange_multiplier =
                      <<IF RLess(raw, RInt(MultMinExp)) THEN RInt(MultMinExp)
                        ELSE IF RLess(RInt(MultMaxExp), raw) THEN RInt(MultMaxExp)
                        ELSE raw>>
        /\ (~BatchStep /\ hist'.runs = hist.runs) => ctl' = ctl ]_vars

C12_Witness ==
    /\ losses.kind = "geco" /\ hist.attempted >= 2
    /\ losses.mult # <<RInt(0)>>
    /\ ctl.langrange_multiplier # losses.mult
    /\ ctl.C_ma # <<losses.C_cur>>

\* C13 (as stated): with kappa > 0, a variational batch with C > 0 never
\* leaves the multiplier smaller than it found it, and one with C < 0 never
\* leaves it larger.
C13_DirectionFollowsConstraint ==
    [][ (params.variational /\ params.kappa > 0 /\ BatchStep) =>
            /\ losses'.C_cur[1] > 0 =>
                  RLeq(ctl.langrange_multiplier[1], ctl'.langrange_multiplier[1])
            /\ losses'.C_cur[1] < 0 =>
                  RLeq(ctl'.langrange_multiplier[1], ctl.langrange_multiplier[1]) ]_vars

\* C13 (amended): with kappa > 0, a variational batch that leaves the moving
\* average >= 0 never leaves the multiplier smaller, and one that leaves it
\* <= 0 never leaves it larger; a batch with C > 0 (C < 0) is such a batch
\* when the moving average before it is unset or not negative (not positive).
C13_DirectionFollowsMovingAverage ==
    [][ (params.variational /\ params.kappa > 0 /\ BatchStep) =>
            LET m0 == ctl.langrange_multiplier[1]
                m1 == ctl'.langrange_multiplier[1]
                C  == losses'.C_cur[1]      \* the sign of C
                a1 == ctl'.C_ma[1][1]       \* the sign of the average after
            IN  /\ a1 >= 0 => RLeq(m0, m1)
                /\ a1 <= 0 => RLeq(m1, m0)
                /\ (C > 0 /\ (ctl.C_ma = None \/ ctl.C_ma[1][1] >= 0)) =>
                      (a1 >= 0 /\ RLeq(m0, m1))
                /\ (C < 0 /\ (ctl.C_ma = None \/ ctl.C_ma[1][1] <= 0)) =>
                      (a1 <= 0 /\ RLeq(m1, m0)) ]_vars

\* A batch with C > 0 after which the average is positive and the multiplier grew.
C13_Witness ==
    /\ losses.kind = "geco" /\ params.kappa > 0 /\ hist.attempted >= 2
    /\ losses.C_cur[1] > 0 /\ ctl.C_ma[1][1] > 0
    /\ ctl.C_ma # <<losses.C_cur>>
    /\ RLess(losses.mult[1], ctl.langrange_multiplier[1])

====
